---- MODULE Spec2Model ----
(***************************************************************************)
(* A model of the Redcapy client (src/redcap_export/redcapy.py): the retry *)
(* decorator, the transport / response normaliser _core_api_code and the   *)
(* facade operations that delegate to it.                                  *)
(*                                                                         *)
(* Python values are tagged records so that values of different Python     *)
(* types can be compared.  Response bodies are strings, read character by  *)
(* character with SubSeq.                                                  *)
(***************************************************************************)
EXTENDS Integers, Sequences, FiniteSets, TLC

(***************************************************************************)
(* Bounds of the model.                                                    *)
(***************************************************************************)
\* largest limit argument a caller passes to an export operation
MaxLimit == 3
\* largest wait_secs argument a caller passes to an export operation
MaxWait == 1

(***************************************************************************)
(* Constants of the program.                                               *)
(***************************************************************************)
\* retry(cls, exceptions, limit=4, ...)
default_limit == 4
\* retry(cls, exceptions, ..., wait_secs=3, ...)
default_wait_secs == 3
\* retry(cls, exceptions, ..., backoff=2, ...)
backoff == 2
\* def export_records(self, limit=5, ...)
export_records_limit == 5
\* def export_events(self, limit=3, ...), and export_data_dictionary,
\* export_survey_link and export_survey_participants alike
export_limit == 3
\* def export_records(self, ..., wait_secs=3, ...), and the other exports alike
export_wait_secs == 3
\* the status of a successful response
HTTP_OK == 200
\* the status of the "no file to delete" answer
HTTP_BAD_REQUEST == 400
\* the other statuses a server answers with: a server-side failure
OtherStatuses == {500}

(***************************************************************************)
(* Python values.                                                          *)
(***************************************************************************)
PyBool(b) == [t |-> "bool", v |-> b]
PyStr(s) == [t |-> "str", v |-> s]
PyInt(n) == [t |-> "int", v |-> n]
PyNone == [t |-> "none"]
\* a dict, as a function from its keys to its values
PyDict(f) == [t |-> "dict", v |-> f]
\* a list, as a sequence of its elements
PyList(q) == [t |-> "list", v |-> q]

\* isinstance(rv, bool) and not rv
IsFalse(x) == x.t = "bool" /\ ~x.v

\* Python truthiness of a value: `x if x else ...`
Truthy(x) ==
    CASE x.t = "bool" -> x.v
      [] x.t = "str" -> x.v # ""
      [] x.t = "int" -> x.v # 0
      [] x.t = "none" -> FALSE
      [] x.t = "dict" -> DOMAIN x.v # {}
      [] x.t = "list" -> x.v # <<>>

(***************************************************************************)
(* Characters of a string.                                                 *)
(***************************************************************************)
Ch(s, i) == IF i >= 1 /\ i <= Len(s) THEN SubSeq(s, i, i) ELSE ""

LowerChars ==
    {"a","b","c","d","e","f","g","h","i","j","k","l","m",
     "n","o","p","q","r","s","t","u","v","w","x","y","z"}
UpperChars ==
    {"A","B","C","D","E","F","G","H","I","J","K","L","M",
     "N","O","P","Q","R","S","T","U","V","W","X","Y","Z"}
DigitChars == {"0","1","2","3","4","5","6","7","8","9"}
HexChars == DigitChars \cup {"a","b","c","d","e","f","A","B","C","D","E","F"}

\* [$-_@.&+] : the ASCII range from "$" to "_", and "@", ".", "&", "+"
RangeChars ==
    {"$","%","&","'","(",")","*","+",",","-",".","/",":",";","<","=",">","?",
     "@","[","\\","]","^","_"} \cup DigitChars \cup UpperChars

\* [a-zA-Z]|[0-9]|[$-_@.&+]
UrlChars == LowerChars \cup UpperChars \cup DigitChars \cup RangeChars

\* [! *(),]
PunctChars == {"!"," ","*","(",")",","}

\* Whether t occurs in s at position i.
StartsAt(s, i, t) == i >= 1 /\ i + Len(t) - 1 <= Len(s) /\ SubSeq(s, i, i + Len(t) - 1) = t

(***************************************************************************)
(* _find_url: re.findall of                                                *)
(*   http[s]?://(?:[a-zA-Z]|[0-9]|[$-_@.&+]| [! *(),] | (?: %hh))+         *)
(* and the first match, or "".  The pattern is compiled without the        *)
(* verbose flag, so the blanks in its last two alternatives are literal.   *)
(***************************************************************************)
\* The length of the alternative of the repeated group that matches at i, or 0.
UrlUnit(s, i) ==
    IF Ch(s, i) \in UrlChars THEN 1
    ELSE IF Ch(s, i) = " " /\ Ch(s, i + 1) \in PunctChars /\ Ch(s, i + 2) = " " THEN 3
    ELSE IF StartsAt(s, i, "  %") /\ Ch(s, i + 3) \in HexChars /\ Ch(s, i + 4) \in HexChars
         THEN 5
    ELSE 0

RECURSIVE UrlRun(_, _)
\* The position after the longest run of alternatives that starts at i.
UrlRun(s, i) == IF UrlUnit(s, i) = 0 THEN i ELSE UrlRun(s, i + UrlUnit(s, i))

\* The position after the match of the whole pattern that starts at i, or 0.
UrlMatch(s, i) ==
    LET j == IF StartsAt(s, i, "https://") THEN i + 8
             ELSE IF StartsAt(s, i, "http://") THEN i + 7
             ELSE 0
    IN  IF j = 0 \/ UrlUnit(s, j) = 0 THEN 0 ELSE UrlRun(s, j)

RECURSIVE FirstUrl(_, _)
\* The leftmost match at or after position i, or "".
FirstUrl(s, i) ==
    IF i > Len(s) THEN ""
    ELSE IF UrlMatch(s, i) # 0 THEN SubSeq(s, i, UrlMatch(s, i) - 1)
    ELSE FirstUrl(s, i + 1)

_find_url(str_to_parse) == FirstUrl(str_to_parse, 1)

(***************************************************************************)
(* json.loads, for JSON texts without escapes, signs or fractions: true,   *)
(* false, null, unsigned integers, strings, objects and arrays, with white *)
(* space between the tokens.  The result is [ok |-> TRUE, val |-> value],  *)
(* or [ok |-> FALSE] where json.loads raises.  A dict is a function of its *)
(* keys: the order of its members is not kept.                             *)
(***************************************************************************)
ParseFail == [ok |-> FALSE]

WhiteSpace == {" ", "\t", "\n", "\r"}

RECURSIVE SkipWs(_, _)
\* The position of the first character from i on that is not white space.
SkipWs(s, i) == IF Ch(s, i) \in WhiteSpace THEN SkipWs(s, i + 1) ELSE i

RECURSIVE ScanString(_, _)
\* The position of the quote that closes the string whose text starts at i, or 0.
ScanString(s, i) ==
    IF i > Len(s) \/ Ch(s, i) = "\\" THEN 0
    ELSE IF Ch(s, i) = "\"" THEN i
    ELSE ScanString(s, i + 1)

RECURSIVE ScanDigits(_, _)
\* The position after the digits that start at i.
ScanDigits(s, i) == IF Ch(s, i) \in DigitChars THEN ScanDigits(s, i + 1) ELSE i

DigitValue(c) == CHOOSE n \in 0..9 : Ch("0123456789", n + 1) = c

RECURSIVE DigitsValue(_, _, _, _)
\* The number written by the digits of s from i to before j.
DigitsValue(s, i, j, acc) ==
    IF i >= j THEN acc ELSE DigitsValue(s, i + 1, j, 10 * acc + DigitValue(Ch(s, i)))

RECURSIVE ParseValue(_, _)
RECURSIVE ParseMembers(_, _, _)
RECURSIVE ParseElements(_, _, _)

\* The members of an object, from position i, after the members in acc.
ParseMembers(s, i, acc) ==
    LET k == SkipWs(s, i)
        j == ScanString(s, k + 1)
    IN  IF Ch(s, k) # "\"" \/ j = 0 \/ Ch(s, SkipWs(s, j + 1)) # ":" THEN ParseFail
        ELSE LET r == ParseValue(s, SkipWs(s, j + 1) + 1)
             IN  IF ~r.ok THEN ParseFail
                 ELSE LET acc2 == (SubSeq(s, k + 1, j - 1) :> r.val) @@ acc
                          n == SkipWs(s, r.next)
                      IN  IF Ch(s, n) = "," THEN ParseMembers(s, n + 1, acc2)
                          ELSE IF Ch(s, n) = "}"
                               THEN [ok |-> TRUE, val |-> PyDict(acc2), next |-> n + 1]
                          ELSE ParseFail

\* The elements of an array, from position i, after the elements in acc.
ParseElements(s, i, acc) ==
    LET r == ParseValue(s, i)
    IN  IF ~r.ok THEN ParseFail
        ELSE LET acc2 == Append(acc, r.val)
                 n == SkipWs(s, r.next)
             IN  IF Ch(s, n) = "," THEN ParseElements(s, n + 1, acc2)
                 ELSE IF Ch(s, n) = "]"
                      THEN [ok |-> TRUE, val |-> PyList(acc2), next |-> n + 1]
                 ELSE ParseFail

\* The JSON value that starts at or after position p, after white space, and
\* the position after it.
ParseValue(s, p) ==
    LET i == SkipWs(s, p)
    IN  IF StartsAt(s, i, "true") THEN [ok |-> TRUE, val |-> PyBool(TRUE), next |-> i + 4]
        ELSE IF StartsAt(s, i, "false")
             THEN [ok |-> TRUE, val |-> PyBool(FALSE), next |-> i + 5]
        ELSE IF StartsAt(s, i, "null") THEN [ok |-> TRUE, val |-> PyNone, next |-> i + 4]
        ELSE IF Ch(s, i) \in DigitChars
             THEN LET j == ScanDigits(s, i)
                  IN  IF Ch(s, i) = "0" /\ j > i + 1 THEN ParseFail
                      ELSE [ok |-> TRUE, val |-> PyInt(DigitsValue(s, i, j, 0)), next |-> j]
        ELSE IF Ch(s, i) = "\""
             THEN LET j == ScanString(s, i + 1)
                  IN  IF j = 0 THEN ParseFail
                      ELSE [ok |-> TRUE, val |-> PyStr(SubSeq(s, i + 1, j - 1)),
                            next |-> j + 1]
        ELSE IF Ch(s, i) = "{"
             THEN IF Ch(s, SkipWs(s, i + 1)) = "}"
                  THEN [ok |-> TRUE, val |-> PyDict(<<>>), next |-> SkipWs(s, i + 1) + 1]
                  ELSE ParseMembers(s, i + 1, <<>>)
        ELSE IF Ch(s, i) = "["
             THEN IF Ch(s, SkipWs(s, i + 1)) = "]"
                  THEN [ok |-> TRUE, val |-> PyList(<<>>), next |-> SkipWs(s, i + 1) + 1]
                  ELSE ParseElements(s, i + 1, <<>>)
        ELSE ParseFail

json_loads(s) ==
    LET r == ParseValue(s, 1)
    IN  IF r.ok /\ SkipWs(s, r.next) = Len(s) + 1 THEN [ok |-> TRUE, val |-> r.val]
        ELSE ParseFail

(***************************************************************************)
(* json.dumps with its default separators ", " and ": ", and str().        *)
(***************************************************************************)
RECURSIVE IntStr(_)
\* str(n) for n >= 0
IntStr(n) ==
    IF n < 10 THEN Ch("0123456789", n + 1)
    ELSE IntStr(n \div 10) \o Ch("0123456789", (n % 10) + 1)

RECURSIVE json_dumps(_)
RECURSIVE DumpElements(_, _)
RECURSIVE DumpMembers(_, _)

\* the elements of q from the i-th on, separated by ", "
DumpElements(q, i) ==
    IF i > Len(q) THEN ""
    ELSE json_dumps(q[i]) \o (IF i < Len(q) THEN ", " ELSE "") \o DumpElements(q, i + 1)

\* the members of f with the keys in keys, separated by ", "
DumpMembers(f, keys) ==
    IF keys = {} THEN ""
    ELSE LET k == CHOOSE x \in keys : TRUE
         IN  "\"" \o k \o "\": " \o json_dumps(f[k])
                 \o (IF keys = {k} THEN "" ELSE ", ") \o DumpMembers(f, keys \ {k})

json_dumps(x) ==
    IF x.t = "bool" THEN (IF x.v THEN "true" ELSE "false")
    ELSE IF x.t = "none" THEN "null"
    ELSE IF x.t = "int" THEN IntStr(x.v)
    ELSE IF x.t = "str" THEN "\"" \o x.v \o "\""
    ELSE IF x.t = "list" THEN "[" \o DumpElements(x.v, 1) \o "]"
    ELSE "{" \o DumpMembers(x.v, DOMAIN x.v) \o "}"

\* str(x), for the values passed as keyword arguments
str(x) ==
    IF x.t = "str" THEN x.v
    ELSE IF x.t = "int" THEN IntStr(x.v)
    ELSE IF x.t = "bool" THEN (IF x.v THEN "True" ELSE "False")
    ELSE "None"

(***************************************************************************)
(* BeautifulSoup(text, "xml").hash.error.get_text(): the text of the error *)
(* element of a <hash> document, or [ok |-> FALSE] where the expression    *)
(* raises (no hash element, no error element).                             *)
(***************************************************************************)
RECURSIVE HasChar(_, _, _)
HasChar(s, i, c) == i <= Len(s) /\ (Ch(s, i) = c \/ HasChar(s, i + 1, c))

soup_hash_error_get_text(text) ==
    LET pre == "<hash><error>"
        suf == "</error></hash>"
        inner == SubSeq(text, Len(pre) + 1, Len(text) - Len(suf))
    IN  IF /\ Len(text) >= Len(pre) + Len(suf)
           /\ StartsAt(text, 1, pre)
           /\ StartsAt(text, Len(text) - Len(suf) + 1, suf)
           /\ ~HasChar(inner, 1, "<")
        THEN [ok |-> TRUE, val |-> inner]
        ELSE ParseFail

(***************************************************************************)
(* What one physical attempt meets: the server's response, or a fault.     *)
(* fault "post": requests.post raises (connection refused, timeout, DNS).  *)
(* fault "open": open(post_data["file"], "rb") raises, before any POST.    *)
(***************************************************************************)
NoFileMsg == "There is no file to delete for this record"

UrlBody == "https://example.org/survey/ABC"

Bodies ==
    { "",
      UrlBody,
      "see https://example.org/survey/ABC",
      "[\"https://example.org/s\"]",
      "{\"a\":1}",
      "{\"count\":1}",
      "false",
      "{}",
      "{\"error\":\"There is no file to delete for this record\"}",
      "{\"error\":\"bad token\"}",
      "<hash><error>bad token</error></hash>",
      "record_id,age" }

\* The bodies that come with a server error.
ErrorBodies ==
    { "",
      "{\"error\":\"There is no file to delete for this record\"}",
      "<hash><error>bad token</error></hash>" }

Response(code, body) == [fault |-> "none", status_code |-> code, text |-> body]
Fault(f) == [fault |-> f]

\* What an attempt of a call can meet; a file is opened only for a file import.
Responses(import_file) ==
    {Response(c, b) : c \in {HTTP_OK, HTTP_BAD_REQUEST}, b \in Bodies}
        \cup {Response(c, b) : c \in OtherStatuses, b \in ErrorBodies}
        \cup {Fault("post")}
        \cup (IF import_file THEN {Fault("open")} ELSE {})

(***************************************************************************)
(* _core_api_code: one physical attempt.  Its outcome is                   *)
(*   [exc |-> FALSE, val |-> the value returned, kind |-> the return taken]*)
(* or [exc |-> TRUE] when an exception leaves the function.                *)
(***************************************************************************)
Returns(value, k) == [exc |-> FALSE, val |-> value, kind |-> k]
Raises == [exc |-> TRUE]

\* json.loads(r.text)["error"] raises
ErrorFieldRaises(text) ==
    LET j == json_loads(text)
    IN  ~j.ok \/ j.val.t # "dict" \/ "error" \notin DOMAIN j.val.v

\* The comparison made with the whole body instead of its error field.
IsNoFileToDelete_whole_body(text) == text = NoFileMsg

\* json.loads(r.text)["error"] == "There is no file to delete for this record"
IsNoFileToDelete(text) ==
    ~ErrorFieldRaises(text) /\ json_loads(text).val.v["error"] = PyStr(NoFileMsg)

\* try_block where the "no file to delete" answer is not singled out.
try_block_no_special(r) ==
    IF r.fault # "none" THEN [flow |-> "raise"]
    ELSE IF r.status_code # HTTP_OK
         THEN [flow |-> "return", out |-> Returns(PyBool(FALSE), "bad_status")]
    ELSE [flow |-> "fall"]

\* The try block: what the code does between the POST and the status checks.
\*   "raise": an exception is raised inside the block
\*   "fall":  the block ends without returning (status 200)
\*   else  :  the block returns
try_block(r) ==
    IF r.fault # "none" THEN [flow |-> "raise"]
    ELSE IF r.status_code = HTTP_BAD_REQUEST /\ ErrorFieldRaises(r.text) THEN [flow |-> "raise"]
    ELSE IF r.status_code = HTTP_BAD_REQUEST /\ IsNoFileToDelete(r.text)
         THEN [flow |-> "return", out |-> Returns(PyBool(TRUE), "no_file_to_delete")]
    ELSE IF r.status_code # HTTP_OK
         THEN [flow |-> "return", out |-> Returns(PyBool(FALSE), "bad_status")]
    ELSE [flow |-> "fall"]

\* normalise without the branch for an empty body of a file delete.
normalise_no_delete(return_value, import_file, delete_file) ==
    IF return_value # "" /\ _find_url(return_value) = return_value
    THEN Returns(PyStr(return_value), "url")
    ELSE IF (Len(return_value) > 0 /\ import_file) \/ ~import_file
    THEN IF json_loads(return_value).ok
         THEN Returns(json_loads(return_value).val, "json")
         ELSE IF soup_hash_error_get_text(return_value).ok
         THEN Returns(PyStr(soup_hash_error_get_text(return_value).val), "xml_error")
         ELSE Returns(PyStr(return_value), "raw")
    ELSE Returns(PyBool(TRUE), "imported")

\* normalise where every body left is parsed, an empty body of a file import too.
normalise_parse_always(return_value, import_file, delete_file) ==
    IF return_value # "" /\ _find_url(return_value) = return_value
    THEN Returns(PyStr(return_value), "url")
    ELSE IF delete_file /\ Len(return_value) = 0
    THEN Returns(PyBool(TRUE), "deleted")
    ELSE IF json_loads(return_value).ok
    THEN Returns(json_loads(return_value).val, "json")
    ELSE IF soup_hash_error_get_text(return_value).ok
    THEN Returns(PyStr(soup_hash_error_get_text(return_value).val), "xml_error")
    ELSE Returns(PyStr(return_value), "raw")

\* normalise where a body that holds a URL anywhere is taken for a URL.
normalise_url_anywhere(return_value, import_file, delete_file) ==
    IF return_value # "" /\ _find_url(return_value) # ""
    THEN Returns(PyStr(return_value), "url")
    ELSE IF delete_file /\ Len(return_value) = 0
    THEN Returns(PyBool(TRUE), "deleted")
    ELSE IF (Len(return_value) > 0 /\ import_file) \/ ~import_file
    THEN IF json_loads(return_value).ok
         THEN Returns(json_loads(return_value).val, "json")
         ELSE IF soup_hash_error_get_text(return_value).ok
         THEN Returns(PyStr(soup_hash_error_get_text(return_value).val), "xml_error")
         ELSE Returns(PyStr(return_value), "raw")
    ELSE Returns(PyBool(TRUE), "imported")

\* A body that is not JSON is a failure: no XML parse, no raw text.
normalise_json_only(return_value, import_file, delete_file) ==
    IF return_value # "" /\ _find_url(return_value) = return_value
    THEN Returns(PyStr(return_value), "url")
    ELSE IF delete_file /\ Len(return_value) = 0
    THEN Returns(PyBool(TRUE), "deleted")
    ELSE IF (Len(return_value) > 0 /\ import_file) \/ ~import_file
    THEN IF json_loads(return_value).ok
         THEN Returns(json_loads(return_value).val, "json")
         ELSE Returns(PyBool(FALSE), "raw")
    ELSE Returns(PyBool(TRUE), "imported")

\* The code after the try block: the classification of a status-200 body.
normalise(return_value, import_file, delete_file) ==
    IF return_value # "" /\ _find_url(return_value) = return_value
    THEN Returns(PyStr(return_value), "url")
    ELSE IF delete_file /\ Len(return_value) = 0
    THEN Returns(PyBool(TRUE), "deleted")
    ELSE IF (Len(return_value) > 0 /\ import_file) \/ ~import_file
    THEN IF json_loads(return_value).ok
         THEN Returns(json_loads(return_value).val, "json")
         ELSE IF soup_hash_error_get_text(return_value).ok
         THEN Returns(PyStr(soup_hash_error_get_text(return_value).val), "xml_error")
         ELSE Returns(PyStr(return_value), "raw")
    ELSE Returns(PyBool(TRUE), "imported")

\* The handler that lets the exception go on.
except_handler_reraise == Raises

\* except Exception as e: ... return False
except_handler == Returns(PyBool(FALSE), "exception")

_core_api_code(r, import_file, delete_file) ==
    LET t == try_block(r)
    IN  IF t.flow = "raise" THEN except_handler
        ELSE IF t.flow = "return" THEN t.out
        ELSE normalise(r.text, import_file, delete_file)

\* The attempts a call can make: what each meets and the outcome of
\* _core_api_code on it, for the keywords of a plain call, a file import and a
\* file delete.
AttemptsOf(imp, del) ==
    {[met |-> r, out |-> _core_api_code(r, imp, del)] : r \in Responses(imp)}
PlainAttempts == AttemptsOf(FALSE, FALSE)
ImportAttempts == AttemptsOf(TRUE, FALSE)
DeleteAttempts == AttemptsOf(FALSE, TRUE)
Attempts(imp, del) ==
    IF imp THEN ImportAttempts ELSE IF del THEN DeleteAttempts ELSE PlainAttempts

\* self.last_status_code is set after the status checks: on status 200 alone.
status_after_ok_only(r) ==
    IF r.fault # "none" \/ r.status_code # HTTP_OK THEN PyStr("") ELSE PyInt(r.status_code)

\* self.last_status_code after the attempt: reset to "", set once r is there
status_after(r) == IF r.fault # "none" THEN PyStr("") ELSE PyInt(r.status_code)
\* self.last_response after the attempt
response_after(r) == IF r.fault # "none" THEN PyStr("") ELSE r

(***************************************************************************)
(* _check_args: invalid retry arguments are replaced by 1.                 *)
(***************************************************************************)
\* isinstance(x, int): bool is a subclass of int
isinstance_int(x) == x.t \in {"int", "bool"}

\* The number an int is in a comparison or a product: True is 1, False is 0.
int_value(x) == IF x.t = "bool" THEN (IF x.v THEN 1 ELSE 0) ELSE x.v

\* A limit of 0 is let through: the test is limit < 0.
_check_args_zero_limit(limit_arg, wait_secs_arg) ==
    [limit |-> IF ~isinstance_int(limit_arg) \/ int_value(limit_arg) < 0 THEN PyInt(1)
               ELSE limit_arg,
     wait_secs |-> IF ~isinstance_int(wait_secs_arg) \/ int_value(wait_secs_arg) < 0
                   THEN PyInt(1)
                   ELSE wait_secs_arg]

_check_args(limit_arg, wait_secs_arg) ==
    [limit |-> IF ~isinstance_int(limit_arg) \/ int_value(limit_arg) < 1 THEN PyInt(1)
               ELSE limit_arg,
     wait_secs |-> IF ~isinstance_int(wait_secs_arg) \/ int_value(wait_secs_arg) < 0
                   THEN PyInt(1)
                   ELSE wait_secs_arg]

\* The limit and wait_secs arguments of an export operation: what a caller
\* passes, or the operation's default.
LimitArgs(default) == {PyInt(n) : n \in 0..MaxLimit} \cup {PyNone, PyInt(default)}
WaitArgs == {PyInt(n) : n \in (0 - 1)..MaxWait} \cup {PyNone, PyInt(export_wait_secs)}

(***************************************************************************)
(* The constructor: the validators of api_token and redcap_url.  The token *)
(* and the URL are Python strings.                                         *)
(***************************************************************************)
\* begin_show_chars = 3
begin_show_chars == 3
\* end_show_chars = 2
end_show_chars == 2
\* the mask between the characters shown
TokenMask == "***...***"

\* s[:n]
SliceTo(s, n) == IF Len(s) <= n THEN s ELSE SubSeq(s, 1, n)

\* s[n:]: what a slip of the sign in s[-n:] would show
SliceLast_from_index(s, n) == IF Len(s) <= n THEN "" ELSE SubSeq(s, n + 1, Len(s))

\* s[-n:]
SliceLast(s, n) == IF Len(s) <= n THEN s ELSE SubSeq(s, Len(s) - n + 1, Len(s))

\* The token is masked before it is copied: _redcap_token holds the mask.
check_and_mask_token_masked_first(value) ==
    IF value = ""
    THEN [raises |-> TRUE]
    ELSE [raises |-> FALSE,
          redcap_token |-> SliceTo(value, begin_show_chars) \o TokenMask
                               \o SliceLast(value, end_show_chars),
          api_token |-> SliceTo(value, begin_show_chars) \o TokenMask
                            \o SliceLast(value, end_show_chars)]

\* check_and_mask_token: an empty token raises ValueError; otherwise the token
\* is kept in _redcap_token and api_token becomes its masked form.
check_and_mask_token(value) ==
    IF value = ""
    THEN [raises |-> TRUE]
    ELSE [raises |-> FALSE,
          redcap_token |-> value,
          api_token |-> SliceTo(value, begin_show_chars) \o TokenMask
                            \o SliceLast(value, end_show_chars)]

\* checkers.is_url of validator_collection, on the URL syntax
\*   scheme "://" label ("." label)* "." tld [":" port] ["/" path]
\* with scheme one of http, https, ftp; labels of letters, digits and "-"; a
\* top-level domain of two or more letters; a port of two to five digits; a
\* path without blanks.
UrlSchemes == {"http://", "https://", "ftp://"}
LabelChars == LowerChars \cup UpperChars \cup DigitChars \cup {"-"}

RECURSIVE ScanLabel(_, _)
ScanLabel(s, i) == IF Ch(s, i) \in LabelChars THEN ScanLabel(s, i + 1) ELSE i

RECURSIVE AllLetters(_, _, _)
\* the characters s[i..j-1] are letters
AllLetters(s, i, j) ==
    i >= j \/ (Ch(s, i) \in LowerChars \cup UpperChars /\ AllLetters(s, i + 1, j))

RECURSIVE ScanHost(_, _, _)
\* the index after the host name that starts at i, or 0 when there is none;
\* n labels have been read before i
ScanHost(s, i, n) ==
    LET j == ScanLabel(s, i)
    IN  IF j = i THEN 0
        ELSE IF Ch(s, j) = "." THEN ScanHost(s, j + 1, n + 1)
        ELSE IF n >= 1 /\ j - i >= 2 /\ AllLetters(s, i, j) THEN j
        ELSE 0

\* what follows the host name, from index h to the end
UrlTailOk(s, h) ==
    LET p == IF Ch(s, h) = ":" THEN ScanDigits(s, h + 1) ELSE h
    IN  /\ Ch(s, h) = ":" => (p - (h + 1)) \in 2..5
        /\ \/ p = Len(s) + 1
           \/ Ch(s, p) = "/" /\ ~HasChar(s, p, " ")

is_url(value) ==
    \E scheme \in UrlSchemes :
        /\ StartsAt(value, 1, scheme)
        /\ LET h == ScanHost(value, Len(scheme) + 1, 0)
           IN  h # 0 /\ UrlTailOk(value, h)

\* Only the scheme is looked at.
check_url_scheme_only(value) == [raises |-> ~StartsAt(value, 1, "http")]

\* check_url: a URL that is not well formed raises ValueError
check_url(value) == [raises |-> ~is_url(value)]

\* The tokens and URLs a client is constructed with.
Tokens ==
    { "", "a", "ab", "abc", "abcd", "abcde", "abcdef", "aaaaaaa", " ",
      "***...***", "0123456789ABCDEF", "0123456789ABCDEF0123456789ABCDEF" }

Urls ==
    { "",
      "http:/redcap.ucsf.edu",
      "http://redcap.ucsf,edu",
      "redcap.ucsf.edu",
      "http://redcap,",
      "https://redcap example.org/api/",
      "http://redcap.ucsf.edu",
      "https://redcap.ucsf.edu/api/",
      "https://redcap.example.org:8443/api/",
      "https://redcap.example.org/api/" }

\* The client whose calls are followed was constructed with these.
TheToken == "0123456789ABCDEF"
TheUrl == "https://redcap.example.org/api/"

(***************************************************************************)
(* The parameters of a call.  post_data and kwargs are Python dicts with   *)
(* string keys: functions from their keys to Python values.  m names the   *)
(* method that assembles post_data; a holds its positional arguments.      *)
(***************************************************************************)
\* retry_keys = ["limit", "wait_secs", "backoff", "logger"]
retry_keys == {"limit", "wait_secs", "backoff", "logger"}

\* the keys each method lets through, before retry_keys is added
listed_keys(m) ==
    CASE m = "export_events" -> {"token", "content", "format", "arms", "returnFormat"}
      [] m = "export_data_dictionary" ->
            {"token", "content", "format", "fields", "forms", "returnFormat"}
      [] m = "export_survey_link" -> {"token", "content", "format", "returnFormat"}
      [] m = "export_survey_participants" -> {"token", "content", "format", "returnFormat"}
      [] m = "export_records" ->
            {"fields", "forms", "events", "records", "token", "content", "format", "type",
             "rawOrLabel", "rawOrLabelHeaders", "exportCheckboxLabel", "exportSurveyFields",
             "exportDataAccessGroups", "returnFormat"}
      [] m = "import_records" ->
            {"token", "content", "format", "type", "overwriteBehavior", "data",
             "dateFormat", "returnContent", "returnFormat"}
      [] m = "delete_record" -> {"token", "content", "records[0]", "arm"}
      [] m = "delete_form" ->
            {"token", "content", "action", "records[0]", "field", "event",
             "repeat_instance"}
      [] m = "import_file" ->
            {"token", "content", "format", "action", "record", "field", "event",
             "returnContent", "file"}
      \* redcapy_exportcsv.py
      [] m = "export_reports" -> {"token", "content", "format", "returnFormat"}

\* key in [...] + self.retry_keys
is_valid_key(m, key) == key \in listed_keys(m) \cup retry_keys

\* post_data = {...}: the method's defaults
post_data_defaults(m, token, a) ==
    CASE m = "export_events" ->
            ("token" :> PyStr(token)) @@ ("content" :> PyStr("event"))
                @@ ("format" :> PyStr("json")) @@ ("returnFormat" :> PyStr("json"))
      [] m = "export_data_dictionary" ->
            ("token" :> PyStr(token)) @@ ("content" :> PyStr("metadata"))
                @@ ("format" :> PyStr("json")) @@ ("returnFormat" :> PyStr("json"))
      [] m = "export_survey_link" ->
            ("token" :> PyStr(token)) @@ ("content" :> PyStr("surveyLink"))
                @@ ("format" :> PyStr("json")) @@ ("instrument" :> a.instrument)
                @@ ("event" :> a.event) @@ ("record" :> a.record)
                @@ ("returnFormat" :> PyStr("json"))
      [] m = "export_survey_participants" ->
            ("token" :> PyStr(token)) @@ ("content" :> PyStr("participantList"))
                @@ ("format" :> PyStr("json")) @@ ("instrument" :> a.instrument)
                @@ ("event" :> a.event) @@ ("returnFormat" :> PyStr("json"))
      [] m = "export_records" ->
            ("token" :> PyStr(token)) @@ ("content" :> PyStr("record"))
                @@ ("format" :> PyStr("json")) @@ ("type" :> PyStr("flat"))
                @@ ("rawOrLabel" :> PyStr("raw")) @@ ("rawOrLabelHeaders" :> PyStr("raw"))
                @@ ("exportCheckboxLabel" :> PyStr("false"))
                @@ ("exportSurveyFields" :> PyStr("false"))
                @@ ("exportDataAccessGroups" :> PyStr("false"))
                @@ ("returnFormat" :> PyStr("json"))
      [] m = "import_records" ->
            ("token" :> PyStr(token)) @@ ("content" :> PyStr("record"))
                @@ ("format" :> PyStr("json")) @@ ("type" :> PyStr("flat"))
                @@ ("overwriteBehavior" :> PyStr("normal")) @@ ("data" :> a.data_to_upload)
                @@ ("dateFormat" :> PyStr("YMD")) @@ ("returnContent" :> PyStr("count"))
                @@ ("returnFormat" :> PyStr("json"))
      [] m = "delete_record" ->
            ("token" :> PyStr(token)) @@ ("action" :> PyStr("delete"))
                @@ ("content" :> PyStr("record")) @@ ("records[0]" :> a.id_to_delete)
      [] m = "delete_form" ->
            ("token" :> PyStr(token)) @@ ("content" :> PyStr("file"))
                @@ ("action" :> PyStr("delete")) @@ ("record" :> a.id)
                @@ ("field" :> a.field) @@ ("event" :> a.event)
                @@ ("repeat_instance" :> a.repeat_instance)
      [] m = "import_file" ->
            ("token" :> PyStr(token)) @@ ("content" :> PyStr("file"))
                @@ ("format" :> PyStr("json")) @@ ("action" :> PyStr("import"))
                @@ ("record" :> a.record_id) @@ ("field" :> a.field)
                @@ ("event" :> a.event) @@ ("returnFormat" :> PyStr("json"))
                @@ ("file" :> a.filename)
                @@ (IF Truthy(a.repeat_instance)
                    THEN ("repeat_instance" :> PyStr(str(a.repeat_instance)))
                    ELSE <<>>)

\* post_data.pop(key)
pop(post_data, key) == [k \in (DOMAIN post_data) \ {key} |-> post_data[k]]

\* post_data is made of the valid overrides alone: the defaults are lost.
override_replace(m, post_data, kwargs, as_text) ==
    LET valid == {key \in DOMAIN kwargs : is_valid_key(m, key)}
    IN  IF valid = {} THEN post_data
        ELSE [k \in valid |-> IF as_text THEN PyStr(str(kwargs[k])) ELSE kwargs[k]]

\* for key, value in kwargs.items(): a valid key is set in post_data, as text
\* when as_text (import_file); any other key is reported and left out
override(m, post_data, kwargs, as_text) ==
    LET valid == {key \in DOMAIN kwargs : is_valid_key(m, key)}
    IN  [k \in (DOMAIN post_data) \cup valid |->
            IF k \in valid
            THEN (IF as_text THEN PyStr(str(kwargs[k])) ELSE kwargs[k])
            ELSE post_data[k]]

\* the keys reported: print("{} is not a valid key".format(key))
not_valid_keys(m, kwargs) == {key \in DOMAIN kwargs : ~is_valid_key(m, key)}

\* data_to_upload[:1] != "["
is_unwrapped(data_to_upload) == SliceTo(data_to_upload, 1) # "["

\* import_records: with format json, a str payload that does not start with
\* "[" and that json.loads accepts is sent as json.dumps([json.loads(...)])
wrap_data(post_data, data_to_upload) ==
    IF /\ post_data["format"] = PyStr("json")
       /\ data_to_upload.t = "str"
       /\ is_unwrapped(data_to_upload.v)
       /\ json_loads(data_to_upload.v).ok
    THEN [post_data EXCEPT
             !["data"] = PyStr(json_dumps(PyList(<<json_loads(data_to_upload.v).val>>)))]
    ELSE post_data

\* kwargs["action"] when "action" in kwargs, as import_file looks at it
action_of(kwargs) ==
    IF "action" \in DOMAIN kwargs /\ kwargs["action"] = PyStr("delete") THEN "delete"
    ELSE IF "action" \in DOMAIN kwargs /\ kwargs["action"] = PyStr("export") THEN "export"
    ELSE IF "action" \in DOMAIN kwargs THEN "import"
    ELSE "none"

\* The file field stays.
drop_file_never(post_data, kwargs) == post_data

\* if "action" in kwargs and kwargs["action"] in ["export", "delete"]: post_data.pop("file")
drop_file(post_data, kwargs) ==
    IF action_of(kwargs) \in {"export", "delete"} THEN pop(post_data, "file") ELSE post_data

\* The post_data a method assembles from its arguments and keyword overrides.
assemble(m, token, a, kwargs) ==
    LET merged == override(m, post_data_defaults(m, token, a), kwargs, m = "import_file")
    IN  IF m = "import_records" THEN wrap_data(merged, a.data_to_upload)
        ELSE IF m = "import_file" THEN drop_file(merged, kwargs)
        ELSE merged

\* The request an attempt makes: requests.post(self.redcap_url, data=post_data,
\* files=files) with the file opened for a file import, otherwise
\* requests.post(self.redcap_url, data=post_data, headers={"Accept-Encoding": "identity"}).
request(url, post_data, import_file) ==
    IF import_file
    THEN [url |-> url, data |-> post_data, files |-> post_data["file"], headers |-> <<>>]
    ELSE [url |-> url, data |-> post_data, files |-> PyNone,
          headers |-> ("Accept-Encoding" :> "identity")]

\* Positional arguments.
NoArgs == <<>>
PlainArgs(m) ==
    CASE m = "export_survey_link" ->
            [instrument |-> PyStr("survey"), event |-> PyStr("event_1_arm_1"),
             record |-> PyStr("1")]
      [] m = "export_survey_participants" ->
            [instrument |-> PyStr("survey"), event |-> PyStr("event_1_arm_1")]
      [] m = "import_records" -> [data_to_upload |-> PyStr("{\"a\":1}")]
      [] m = "delete_record" -> [id_to_delete |-> PyStr("1")]
      [] m = "delete_form" ->
            [id |-> PyStr("1"), field |-> PyStr("upload"), event |-> PyStr("event_1_arm_1"),
             repeat_instance |-> PyStr("2")]
      [] m = "import_file" ->
            [record_id |-> PyStr("1"), field |-> PyStr("upload"),
             event |-> PyStr("event_1_arm_1"), filename |-> PyStr("test.txt"),
             repeat_instance |-> PyNone]
      [] OTHER -> NoArgs

\* delete_file: import_file(..., filename=None, ..., action="delete")
delete_file_args == [PlainArgs("import_file") EXCEPT !.filename = PyNone]
delete_file_kwargs == ("action" :> PyStr("delete"))

\* The payloads handed to import_records.
Payloads ==
    { PyStr("{\"a\":1}"),
      PyStr("{\"a\":1,\"b\":\"x\"}"),
      PyStr("[{\"a\":1}]"),
      PyStr("[{\"a\":1},{\"a\":2}]"),
      PyStr(" [{\"a\":1}]"),
      PyStr("[]"),
      PyStr("record_id,age"),
      PyStr(""),
      PyList(<<PyDict(("a" :> PyInt(1)))>>) }

\* The arguments a method is called with.
ArgsOf(m) ==
    CASE m = "import_records" -> {[data_to_upload |-> d] : d \in Payloads}
      [] m = "import_file" ->
            {[PlainArgs(m) EXCEPT !.repeat_instance = ri] : ri \in {PyNone, PyInt(2)}}
      [] OTHER -> {PlainArgs(m)}

\* Keyword overrides.
NoKwargs == <<>>
CommonKwargs ==
    { NoKwargs,
      ("bogus" :> PyStr("x")),
      ("format" :> PyStr("csv")),
      ("token" :> PyStr("other")) @@ ("content" :> PyNone),
      ("records[0]" :> PyStr("7")),
      ("backoff" :> PyInt(3)),
      ("record" :> PyStr("9")) @@ ("arm" :> PyInt(1)),
      ("bogus" :> PyStr("x")) @@ ("format" :> PyStr("csv")) @@ ("returnFormat" :> PyStr("xml")) }

\* another token, for one call
TokenKwargs == ("token" :> PyStr("other"))

\* limit and wait_secs as keywords: the methods without such parameters take
\* them in **kwargs.
RetryKwargs == ("limit" :> PyInt(2)) @@ ("wait_secs" :> PyInt(1))

KwargsOf(m) ==
    CASE m = "import_records" -> CommonKwargs \cup {("data" :> PyStr("[]")), RetryKwargs}
      [] m \in {"delete_record", "delete_form"} -> CommonKwargs \cup {RetryKwargs}
      [] m = "import_file" ->
            CommonKwargs \cup {RetryKwargs} \cup
                { ("action" :> PyStr("import")),
                  ("action" :> PyStr("export")),
                  ("action" :> PyStr("delete")),
                  ("action" :> PyStr("export")) @@ ("bogus" :> PyStr("x")),
                  ("action" :> PyStr("delete")) @@ ("file" :> PyStr("other.txt")) }
      [] OTHER -> CommonKwargs

(***************************************************************************)
(* The state: one client instance and the call it is carrying out.         *)
(***************************************************************************)
VARIABLES
    pc,                \* "idle": no call yet; "attempting": inside f_retry_wrapper; "returned"
    op,                \* the facade operation of the current call
    import_file,       \* the import_file keyword the wrapper passes on
    delete_file,       \* the delete_file keyword the wrapper passes on
    limit,             \* the wrapper's limit for this call: kwargs.get("limit", limit)
    wait_secs,         \* the wrapper's first delay: kwargs.get("wait_secs", wait_secs)
    mtries,            \* the wrapper's local mtries
    mdelay,            \* the wrapper's local mdelay
    attempts,          \* the physical attempts of this call so far: calls of f
    fails,             \* the attempts of this call that failed (returned False or raised)
    sleeps,            \* the delays slept in this call, in order: calls of time.sleep
    last_outcome,      \* the outcome of the latest attempt of this call
    rv,                \* what the wrapped _core_api_code call returned
    raised,            \* whether an exception left the call
    result,            \* what the facade operation returned
    last_status_code,  \* self.last_status_code
    last_response,     \* self.last_response
    prev,              \* the call before this one: its kind, its last answer, its result
    args,              \* the positional arguments of the current call
    kwargs,            \* the keyword overrides of the current call
    post_data,         \* the post_data the current call assembled
    warned,            \* the keys the current call reported as not valid
    sent,              \* the request of the latest attempt of the current call
    open_files,        \* the files the current call has opened that are still open
    threads,           \* the calls two threads make on the client at the same time
    writers,           \* the thread that assigned each runtime-state field last
    init_args,         \* the arguments the constructor was called with
    constructed,       \* "no": not yet; "ok"; "ValueError": the constructor raised it
    api_token,         \* self.api_token
    _redcap_token,     \* self._redcap_token
    redcap_url         \* self.redcap_url

call_vars ==
    <<pc, op, import_file, delete_file, limit, wait_secs, mtries, mdelay, attempts, fails,
      sleeps, last_outcome, rv, raised, result, last_status_code, last_response, prev>>
params_vars == <<args, kwargs, post_data, warned, sent, open_files>>
client_vars == <<init_args, constructed, api_token, _redcap_token, redcap_url>>
thread_vars == <<threads, writers>>
vars == <<call_vars, params_vars, client_vars, thread_vars>>

\* no value yet
Unset == [t |-> "unset"]
NoOutcome == [exc |-> FALSE, val |-> Unset, kind |-> "none"]
NoCall == [op |-> "none"]
\* the latest attempt made no request: the file could not be opened
NothingSent == [t |-> "nothing"]
\* the threads that use the client at the same time
Threads == {1, 2}
\* a thread that has not called yet
NoThread == [pc |-> "idle", met |-> Unset, out |-> NoOutcome]
\* no thread has assigned last_status_code or last_response yet
NoWriters == [last_status_code |-> 0, last_response |-> 0]

\* The server's answer to a file call, as far as the file is concerned.
Answer(r) ==
    IF r = Response(HTTP_OK, "") THEN "empty_ok"
    ELSE IF r = Response(HTTP_BAD_REQUEST, "{\"error\":\"" \o NoFileMsg \o "\"}") THEN "no_file"
    ELSE "other"

\* The call that has just returned, as the next call remembers it.
Summary ==
    IF pc = "returned" /\ attempts > 0 /\ (import_file \/ delete_file)
    THEN [op |-> IF delete_file THEN "delete" ELSE "import",
          answer |-> Answer(last_response),
          true |-> result = PyBool(TRUE)]
    ELSE IF pc = "returned" THEN [op |-> "other"]
    ELSE NoCall

\* No call has been made.
InitCall ==
    /\ pc = "idle"
    /\ op = "none"
    /\ import_file = FALSE
    /\ delete_file = FALSE
    /\ limit = 0
    /\ wait_secs = 0
    /\ mtries = 0
    /\ mdelay = 0
    /\ attempts = 0
    /\ fails = 0
    /\ sleeps = <<>>
    /\ last_outcome = NoOutcome
    /\ rv = Unset
    /\ raised = FALSE
    /\ result = Unset
    /\ last_status_code = PyStr("")
    /\ last_response = PyStr("")
    /\ prev = NoCall
    /\ args = NoArgs
    /\ kwargs = NoKwargs
    /\ post_data = Unset
    /\ warned = {}
    /\ sent = Unset
    /\ open_files = 0
    /\ threads = [t \in Threads |-> NoThread]
    /\ writers = NoWriters

\* A client constructed with TheToken and TheUrl, before its first call.
Init ==
    /\ InitCall
    /\ init_args = [api_token |-> TheToken, redcap_url |-> TheUrl]
    /\ constructed = "ok"
    /\ api_token = check_and_mask_token(TheToken).api_token
    /\ _redcap_token = check_and_mask_token(TheToken).redcap_token
    /\ redcap_url = TheUrl

\* Before any client is constructed: _redcap_token = "" is the class attribute.
InitClass ==
    /\ InitCall
    /\ init_args = NoArgs
    /\ constructed = "no"
    /\ api_token = ""
    /\ _redcap_token = ""
    /\ redcap_url = ""

(***************************************************************************)
(* The constructor generated by attrs: the fields are set, then the        *)
(* validators run, api_token's first.                                      *)
(***************************************************************************)
__init__ ==
    \E token \in Tokens, url \in Urls :
        LET masked == check_and_mask_token(token)
        IN  /\ init_args' = [api_token |-> token, redcap_url |-> url]
            /\ IF masked.raises \/ check_url(url).raises
               THEN /\ constructed' = "ValueError"
                    /\ api_token' = ""
                    /\ _redcap_token' = ""
                    /\ redcap_url' = ""
               ELSE /\ constructed' = "ok"
                    /\ api_token' = masked.api_token
                    /\ _redcap_token' = masked.redcap_token
                    /\ redcap_url' = url
            /\ UNCHANGED <<call_vars, params_vars, thread_vars>>

(***************************************************************************)
(* f_retry_wrapper.                                                        *)
(***************************************************************************)
\* Entry of f_retry_wrapper: mtries and mdelay are read from the keywords.
enter_wrapper(o, imp, del, lim, wait) ==
    /\ pc # "attempting"
    /\ pc' = "attempting"
    /\ op' = o
    /\ import_file' = imp
    /\ delete_file' = del
    /\ limit' = lim
    /\ wait_secs' = wait
    /\ mtries' = lim
    /\ mdelay' = wait
    /\ attempts' = 0
    /\ fails' = 0
    /\ sleeps' = <<>>
    /\ last_outcome' = NoOutcome
    /\ rv' = Unset
    /\ raised' = FALSE
    /\ result' = Unset
    /\ prev' = Summary
    /\ UNCHANGED <<last_status_code, last_response>>

\* The loop entered once more.
loop_condition_extra(tries) == tries > 0

\* while mtries > 1
loop_condition(tries) == tries > 1

\* Only an exception is retried.
retryable_raise_only(out) == out.exc

\* Every falsy value is retried: `if not rv`.
retryable_falsy(out) == out.exc \/ ~Truthy(out.val)

\* rv raised, or isinstance(rv, bool) and not rv: the attempt is retried
retryable(out) == out.exc \/ IsFalse(out.val)

\* The failed attempt costs no try.
next_tries_kept(tries) == tries

\* mtries -= 1
next_tries(tries) == tries - 1

\* mdelay += backoff
next_delay_additive(delay) == delay + backoff

\* mdelay *= backoff
next_delay(delay) == delay * backoff

\* The value is handed on as it is.
facade_result_verbatim(o, value) == value

\* What the facade operation makes of the value the wrapped call returned.
facade_result(o, value) ==
    IF o = "export_survey_link" THEN (IF Truthy(value) THEN value ELSE PyStr(""))
    ELSE value

\* The call returns value.
return_value(value) ==
    /\ pc' = "returned"
    /\ rv' = value
    /\ result' = facade_result(op, value)
    /\ raised' = FALSE

\* time.sleep(mdelay) in a finally clause: after every attempt of the loop.
sleeps_after_always(out, slept, delay) == Append(slept, delay)

\* time.sleep(mdelay) stands in the except clause: after a failed attempt only
sleeps_after(out, slept, delay) == IF retryable(out) THEN Append(slept, delay) ELSE slept

\* The last attempt is checked like the others: False raises.
final_outcome_checked(out) == IF ~out.exc /\ IsFalse(out.val) THEN Raises ELSE out

\* return f(...): what the last attempt does is what the call does
final_outcome(out) == out

\* files = {"file": open(post_data["file"], "rb")} is closed nowhere: the file
\* is open until the file object is finalised, which reference counting does
\* when _core_api_code returns and another collector at a time of its own.
finalised_after_attempt == {TRUE, FALSE}

\* The open files of the call after an attempt that met r.
open_files_after(r, imp, n) ==
    IF imp /\ r.fault # "open"
    THEN {IF finalised THEN n ELSE n + 1 : finalised \in finalised_after_attempt}
    ELSE {n}

\* The request the attempt that met r made.
request_made(r) ==
    IF r.fault = "open" THEN NothingSent ELSE request(redcap_url, post_data, import_file)

\* One pass of the loop: f is called; a good value is returned, anything else
\* costs one try, a sleep of mdelay, and lengthens the delay.
guarded_attempt ==
    /\ pc = "attempting"
    /\ loop_condition(mtries)
    /\ \E a \in Attempts(import_file, delete_file) :
          LET out == a.out
              r == a.met
          IN  /\ attempts' = attempts + 1
              /\ last_outcome' = out
              /\ last_status_code' = status_after(r)
              /\ last_response' = response_after(r)
              /\ sent' = request_made(r)
              /\ open_files' \in open_files_after(r, import_file, open_files)
              /\ sleeps' = sleeps_after(out, sleeps, mdelay)
              /\ IF retryable(out)
                 THEN /\ mtries' = next_tries(mtries)
                      /\ mdelay' = next_delay(mdelay)
                      /\ fails' = fails + 1
                      /\ UNCHANGED <<pc, rv, raised, result>>
                 ELSE /\ return_value(out.val)
                      /\ UNCHANGED <<mtries, mdelay, fails>>
    /\ UNCHANGED <<op, import_file, delete_file, limit, wait_secs, prev>>
    /\ UNCHANGED <<args, kwargs, post_data, warned, client_vars, thread_vars>>

\* After the loop: f is called once more and whatever it does is the call's end.
final_attempt ==
    /\ pc = "attempting"
    /\ ~loop_condition(mtries)
    /\ \E a \in Attempts(import_file, delete_file) :
          LET out == final_outcome(a.out)
              r == a.met
          IN  /\ attempts' = attempts + 1
              /\ last_outcome' = out
              /\ last_status_code' = status_after(r)
              /\ last_response' = response_after(r)
              /\ sent' = request_made(r)
              /\ open_files' \in open_files_after(r, import_file, open_files)
              /\ fails' = IF retryable(out) THEN fails + 1 ELSE fails
              /\ IF out.exc
                 THEN /\ pc' = "returned"
                      /\ raised' = TRUE
                      /\ UNCHANGED <<rv, result>>
                 ELSE return_value(out.val)
    /\ UNCHANGED <<op, import_file, delete_file, limit, wait_secs, mtries, mdelay, sleeps,
                   prev>>
    /\ UNCHANGED <<args, kwargs, post_data, warned, client_vars, thread_vars>>

(***************************************************************************)
(* The facade operations.                                                  *)
(***************************************************************************)
\* The method m assembles its post_data from the arguments a and the keyword
\* overrides kw.
set_params(m, a, kw) ==
    /\ args' = a
    /\ kwargs' = kw
    /\ post_data' = assemble(m, _redcap_token, a, kw)
    /\ warned' = not_valid_keys(m, kw)
    /\ sent' = Unset
    /\ open_files' = 0
    /\ UNCHANGED <<client_vars, thread_vars>>

\* An export operation: limit and wait_secs are checked and passed on.
export_call(o, Limits, Waits, Args, Kwargs) ==
    \E checked_args \in {_check_args(l, w) : l \in Limits, w \in Waits} :
        \E a \in Args, kw \in Kwargs :
            /\ enter_wrapper(o, FALSE, FALSE, int_value(checked_args.limit),
                             int_value(checked_args.wait_secs))
            /\ set_params(o, a, kw)

\* An operation that calls _core_api_code(post_data=post_data): no limit and no
\* wait_secs is passed on, so the decorator's defaults apply.
plain_call(o, Args, Kwargs) ==
    \E a \in Args, kw \in Kwargs :
        /\ enter_wrapper(o, FALSE, FALSE, default_limit, default_wait_secs)
        /\ set_params(o, a, kw)

\* An operation that returns value without calling _core_api_code.
return_at_once(o, value) ==
    /\ pc # "attempting"
    /\ pc' = "returned"
    /\ op' = o
    /\ import_file' = FALSE
    /\ delete_file' = FALSE
    /\ attempts' = 0
    /\ fails' = 0
    /\ sleeps' = <<>>
    /\ last_outcome' = NoOutcome
    /\ rv' = Unset
    /\ raised' = FALSE
    /\ result' = value
    /\ prev' = Summary
    /\ UNCHANGED <<limit, wait_secs, mtries, mdelay, last_status_code, last_response>>

\* The end of import_file, by the action keyword.
import_file_body(o, action) ==
    IF action = "delete"
    THEN enter_wrapper(o, FALSE, TRUE, default_limit, default_wait_secs)
    ELSE IF action = "export"
    THEN return_at_once(o, PyBool(FALSE))
    ELSE enter_wrapper(o, TRUE, FALSE, default_limit, default_wait_secs)

\* import_file(record_id, field, event, filename, repeat_instance, **kwargs)
import_file_call(o, Args, Kwargs) ==
    \E a \in Args, kw \in Kwargs :
        /\ import_file_body(o, action_of(kw))
        /\ set_params("import_file", a, kw)

(***************************************************************************)
(* The operations as Spec follows them: any limit and wait_secs, the       *)
(* arguments of PlainArgs and no keyword override but import_file's action.*)
(***************************************************************************)
export_events ==
    export_call("export_events", LimitArgs(export_limit), WaitArgs,
                {PlainArgs("export_events")}, {NoKwargs})

export_data_dictionary ==
    export_call("export_data_dictionary", LimitArgs(export_limit), WaitArgs,
                {PlainArgs("export_data_dictionary")}, {NoKwargs})

\* The value returned is made "" when it is falsy: see facade_result.
export_survey_link ==
    export_call("export_survey_link", LimitArgs(export_limit), WaitArgs,
                {PlainArgs("export_survey_link")}, {NoKwargs})

export_survey_participants ==
    export_call("export_survey_participants", LimitArgs(export_limit), WaitArgs,
                {PlainArgs("export_survey_participants")}, {NoKwargs})

export_records ==
    export_call("export_records", LimitArgs(export_records_limit), WaitArgs,
                {PlainArgs("export_records")}, {NoKwargs})

\* delete_record(id_to_delete, **kwargs), with or without a token of the
\* caller's for this call.
delete_record ==
    plain_call("delete_record", {PlainArgs("delete_record")}, {NoKwargs, TokenKwargs})

delete_form == plain_call("delete_form", {PlainArgs("delete_form")}, {NoKwargs})

import_records == plain_call("import_records", {PlainArgs("import_records")}, {NoKwargs})

\* export_file: pass
export_file ==
    /\ return_at_once("export_file", PyNone)
    /\ args' = PlainArgs("import_file")
    /\ kwargs' = NoKwargs
    /\ post_data' = Unset
    /\ warned' = {}
    /\ sent' = Unset
    /\ open_files' = 0
    /\ UNCHANGED <<client_vars, thread_vars>>

\* import_file(..., **kwargs), with or without an action keyword.
import_file_op ==
    import_file_call("import_file", {PlainArgs("import_file")},
                     {NoKwargs} \cup {("action" :> PyStr(action)) :
                                         action \in {"import", "delete", "export"}})

\* delete_file: import_file(..., filename=None, action="delete").
delete_file_op == import_file_call("delete_file", {delete_file_args}, {delete_file_kwargs})

Next ==
    \/ export_events
    \/ export_data_dictionary
    \/ export_survey_link
    \/ export_survey_participants
    \/ export_records
    \/ import_records
    \/ delete_record
    \/ delete_form
    \/ export_file
    \/ import_file_op
    \/ delete_file_op
    \/ guarded_attempt
    \/ final_attempt

Spec == Init /\ [][Next]_vars

(***************************************************************************)
(* SpecParams follows the first call of the client with keyword overrides  *)
(* and with the arguments of ArgsOf.                                       *)
(***************************************************************************)
\* the limit and wait_secs arguments of the export operations under SpecParams
ParamLimits == {PyInt(1), PyInt(MaxLimit)}
ParamWaits == {PyInt(MaxWait)}

first_call == pc = "idle"

\* redcapy_exportcsv.py is not a Python module: the else branch that ends its
\* _core_api_code has no body and its try has no except.  Loading it raises
\* and neither export_reports nor any other operation of Redcapy_exportcsv
\* assembles or sends anything.
redcapy_exportcsv_call(o, Kwargs) ==
    \E kw \in Kwargs :
        /\ pc # "attempting"
        /\ pc' = "returned"
        /\ op' = o
        /\ import_file' = FALSE
        /\ delete_file' = FALSE
        /\ attempts' = 0
        /\ fails' = 0
        /\ sleeps' = <<>>
        /\ last_outcome' = NoOutcome
        /\ rv' = Unset
        /\ raised' = TRUE
        /\ result' = Unset
        /\ prev' = Summary
        /\ args' = NoArgs
        /\ kwargs' = kw
        /\ post_data' = Unset
        /\ warned' = {}
        /\ sent' = Unset
        /\ open_files' = 0
        /\ UNCHANGED <<limit, wait_secs, mtries, mdelay, last_status_code, last_response>>
        /\ UNCHANGED <<client_vars, thread_vars>>

export_reports == redcapy_exportcsv_call("export_reports", CommonKwargs)

\* The arguments of an export operation with limit and wait_secs among them.
WithRetryArgs(a, l, w) == [limit |-> l, wait_secs |-> w] @@ a

export_with(o) ==
    \E l \in ParamLimits, w \in ParamWaits :
        export_call(o, {l}, {w}, {WithRetryArgs(a, l, w) : a \in ArgsOf(o)}, KwargsOf(o))

NextParams ==
    \/ first_call /\ export_with("export_events")
    \/ first_call /\ export_with("export_data_dictionary")
    \/ first_call /\ export_with("export_survey_link")
    \/ first_call /\ export_with("export_survey_participants")
    \/ first_call /\ export_with("export_records")
    \/ first_call /\ plain_call("import_records", ArgsOf("import_records"),
                                KwargsOf("import_records"))
    \/ first_call /\ plain_call("delete_record", ArgsOf("delete_record"),
                                KwargsOf("delete_record"))
    \/ first_call /\ plain_call("delete_form", ArgsOf("delete_form"), KwargsOf("delete_form"))
    \/ first_call /\ import_file_call("import_file", ArgsOf("import_file"),
                                      KwargsOf("import_file"))
    \/ first_call /\ delete_file_op
    \/ first_call /\ export_reports
    \/ guarded_attempt
    \/ final_attempt

SpecParams == Init /\ [][NextParams]_vars

(***************************************************************************)
(* SpecInit follows the constructor.                                       *)
(***************************************************************************)
NextInit == __init__

SpecInit == InitClass /\ [][NextInit]_vars

(***************************************************************************)
(* The claims.                                                             *)
(***************************************************************************)
\* The current call went through the wrapper and has made an attempt.
Attempted == pc # "idle" /\ attempts > 0
\* The current call has returned from the wrapper.
CallEnded == pc = "returned" /\ attempts > 0
\* The latest attempt of the current call got a response with this status.
LastStatusIs(code) == Attempted /\ last_status_code = PyInt(code)
\* The latest attempt of the current call got a response with a status other
\* than 200 that is not the "no file to delete" answer.
LastRejected ==
    /\ Attempted
    /\ last_status_code.t = "int"
    /\ last_status_code.v # HTTP_OK
    /\ Answer(last_response) # "no_file"
\* The latest attempt of the current call met a fault: no response at all.
LastFaulted == Attempted /\ last_status_code = PyStr("")
\* Each delay slept is the one before it times the backoff multiplier.
DelaysGrow ==
    /\ Len(sleeps) > 0 => sleeps[1] = wait_secs
    /\ \A i \in 1..(Len(sleeps) - 1) : sleeps[i + 1] = sleeps[i] * backoff

\* C1: when the wrapped attempt fails K times and then succeeds, under a limit
\* L >= 1: if K < L the call returns the value of the successful attempt after
\* exactly K + 1 attempts; if K >= L it returns what the L-th attempt returned,
\* after exactly L attempts and L - 1 delays, each delay being the one before
\* it times the backoff multiplier (the first is wait_secs).
C1_RetryContract ==
    CallEnded =>
        /\ limit >= 1
        /\ ~raised
        /\ rv = last_outcome.val
        /\ \/ /\ ~IsFalse(rv)
              /\ fails < limit
              /\ attempts = fails + 1
              /\ Len(sleeps) = fails
           \/ /\ IsFalse(rv)
              /\ fails = limit
              /\ attempts = limit
              /\ Len(sleeps) = limit - 1
        /\ DelaysGrow

\* A call under a limit of at least 3 and a positive first delay has failed
\* on every attempt and returned the last attempt's False.
C1_Witness ==
    /\ CallEnded
    /\ limit >= 3
    /\ wait_secs >= 1
    /\ fails = limit
    /\ IsFalse(rv)
    /\ Len(sleeps) = limit - 1

\* C2: the limit counts tries: a call makes at most limit attempts whatever
\* the attempts meet, and exactly limit attempts when every attempt fails; the
\* attempt after the loop is the limit-th one, not one more.
C2_LimitCountsTries ==
    /\ (pc = "attempting" \/ CallEnded) => (limit >= 1 /\ attempts <= limit)
    /\ pc = "attempting" => attempts < limit
    /\ (CallEnded /\ fails = attempts) => attempts = limit

\* Every attempt of a call under a limit of at least 3 has failed.
C2_Witness == CallEnded /\ limit >= 3 /\ fails = attempts /\ attempts = limit

\* C3: a response with a status other than 200, the 400 "no file to delete"
\* answer apart, makes the attempt return False; the wrapper counts it as a
\* failure and goes on to a further attempt while attempts remain; when no
\* attempt remains the call returns that False.
C3_BadStatusIsRetried ==
    LastRejected =>
        /\ last_outcome = Returns(PyBool(FALSE), last_outcome.kind)
        /\ fails = attempts
        /\ Len(sleeps) = IF attempts < limit THEN attempts ELSE limit - 1
        /\ attempts < limit => (pc = "attempting" /\ mtries = limit - attempts)
        /\ attempts >= limit => (pc = "returned" /\ rv = PyBool(FALSE) /\ attempts = limit)

\* A call whose last attempt got a status 500 has used up its limit and
\* returned False.
C3_Witness ==
    /\ CallEnded
    /\ last_status_code.t = "int"
    /\ last_status_code.v \in OtherStatuses
    /\ limit >= 2
    /\ attempts = limit
    /\ rv = PyBool(FALSE)

\* C4: no exception leaves a facade operation, whatever the attempts meet (any
\* status, any body, a fault of the POST or of opening the file), the attempt
\* after the loop included: a returned call has a value, and when its last
\* attempt met a fault that value is False (the empty string for
\* export_survey_link).
C4_NothingRaises ==
    /\ ~raised
    /\ pc = "returned" => result # Unset
    /\ LastFaulted =>
          /\ last_outcome = Returns(PyBool(FALSE), "exception")
          /\ pc = "returned" =>
                result = IF op = "export_survey_link" THEN PyStr("") ELSE PyBool(FALSE)

\* The attempt after the loop met a network fault, and the call returned False.
C4_Witness ==
    /\ CallEnded
    /\ LastFaulted
    /\ attempts = limit
    /\ limit >= 2
    /\ result = PyBool(FALSE)

\* The latest attempt of the current call got a status 200 whose body is a
\* JSON value and not a bare URL.
LastIsJson ==
    /\ LastStatusIs(HTTP_OK)
    /\ json_loads(last_response.text).ok
    /\ _find_url(last_response.text) # last_response.text

\* C5 as stated: a status-200 body that is a JSON value (not a bare URL) ends
\* the call at the attempt that receives it, and the call returns the parsed
\* value.
C5_AsStated ==
    LastIsJson =>
        /\ pc = "returned"
        /\ rv = json_loads(last_response.text).val
        /\ Len(sleeps) = attempts - 1

\* C5: a status-200 body that is a JSON value other than the literal false
\* (and not a bare URL) ends the call at the attempt that receives it, with no
\* sleep and no attempt after it, and the call returns the parsed value:
\* {"a":1} gives the dict {"a": 1}, {"count":1} the dict {"count": 1}.  The
\* body false parses to False, which the wrapper counts as a failed attempt.
C5_JsonPayload ==
    LastIsJson =>
        LET parsed == json_loads(last_response.text).val
        IN  IF IsFalse(parsed)
            THEN /\ last_outcome = Returns(PyBool(FALSE), "json")
                 /\ fails = attempts
                 /\ attempts < limit => pc = "attempting"
            ELSE /\ pc = "returned"
                 /\ last_outcome.kind = "json"
                 /\ rv = parsed
                 /\ fails = attempts - 1
                 /\ Len(sleeps) = attempts - 1
                 /\ last_response.text = "{\"a\":1}" => rv = PyDict("a" :> PyInt(1))
                 /\ last_response.text = "{\"count\":1}" => rv = PyDict("count" :> PyInt(1))

\* A call has returned the dict {"a": 1} on its second attempt.
C5_Witness ==
    /\ CallEnded
    /\ last_response = Response(HTTP_OK, "{\"a\":1}")
    /\ attempts = 2
    /\ rv = PyDict("a" :> PyInt(1))

\* C6: an attempt answered with status 400 and the error "There is no file to
\* delete for this record" returns True, which ends the call at once: no
\* retry and no sleep follow it.  Status 400 with any other body is False.
C6_NoFileToDelete ==
    LastStatusIs(HTTP_BAD_REQUEST) =>
        IF last_response.text = "{\"error\":\"There is no file to delete for this record\"}"
        THEN /\ last_outcome = Returns(PyBool(TRUE), "no_file_to_delete")
             /\ pc = "returned"
             /\ rv = PyBool(TRUE)
             /\ fails = attempts - 1
             /\ Len(sleeps) = attempts - 1
        ELSE /\ ~last_outcome.exc
             /\ last_outcome.val = PyBool(FALSE)
             /\ fails = attempts

\* The first attempt of a call got the "no file to delete" answer and the call
\* returned True without a sleep.
C6_Witness ==
    /\ CallEnded
    /\ LastStatusIs(HTTP_BAD_REQUEST)
    /\ Answer(last_response) = "no_file"
    /\ attempts = 1
    /\ sleeps = <<>>
    /\ rv = PyBool(TRUE)

\* C7: a file delete (the delete_file keyword: delete_file, or import_file
\* with action "delete") answered with status 200 and an empty body returns
\* True, also right after an import of the file that returned True.
C7_DeleteEmptyBody ==
    /\ (Attempted /\ delete_file /\ last_response = Response(HTTP_OK, "")) =>
          /\ last_outcome = Returns(PyBool(TRUE), "deleted")
          /\ pc = "returned"
          /\ result = PyBool(TRUE)
    /\ (prev.op = "delete" /\ prev.answer = "empty_ok") => prev.true

\* A file was imported (True), then delete_file got 200 with an empty body and
\* returned True.
C7_Witness ==
    /\ prev = [op |-> "import", answer |-> "empty_ok", true |-> TRUE]
    /\ CallEnded
    /\ op = "delete_file"
    /\ last_response = Response(HTTP_OK, "")
    /\ result = PyBool(TRUE)

C9_UrlString ==
    LastStatusIs(HTTP_OK) =>
        LET body == last_response.text
        IN  /\ (body # "" /\ _find_url(body) = body) =>
                  /\ last_outcome = Returns(PyStr(body), "url")
                  /\ pc = "returned"
                  /\ rv = PyStr(body)
                  /\ result = PyStr(body)
            /\ body = UrlBody => result = PyStr("https://example.org/survey/ABC")
            /\ (_find_url(body) # "" /\ _find_url(body) # body) => last_outcome.kind # "url"
            /\ body = "[\"https://example.org/s\"]" =>
                  rv = PyList(<<PyStr("https://example.org/s")>>)

\* A file delete got the body https://example.org/survey/ABC and returned it.
C9_Witness ==
    /\ CallEnded
    /\ delete_file
    /\ last_response = Response(HTTP_OK, UrlBody)
    /\ result = PyStr("https://example.org/survey/ABC")

\* C10: every file delete answered with 200 and an empty body (the file was
\* there) or with the 400 "no file to delete" answer (it was gone) returns
\* True, in any sequence of calls: a second delete of a deleted file returns
\* True as the first did.
C10_DeleteIdempotent ==
    /\ (Attempted /\ delete_file /\ Answer(last_response) \in {"empty_ok", "no_file"}) =>
          /\ pc = "returned"
          /\ result = PyBool(TRUE)
    /\ (prev.op = "delete" /\ prev.answer \in {"empty_ok", "no_file"}) => prev.true

\* Two file deletes in a row got the "no file to delete" answer and both
\* returned True.
C10_Witness ==
    /\ prev = [op |-> "delete", answer |-> "no_file", true |-> TRUE]
    /\ CallEnded
    /\ op = "delete_file"
    /\ Answer(last_response) = "no_file"
    /\ result = PyBool(TRUE)

(***************************************************************************)
(* The claims about the parameters of a call.                              *)
(***************************************************************************)
\* The method that assembles the parameters of the current call.
Method == IF op = "delete_file" THEN "import_file" ELSE op
\* A call has been made.
Called == pc # "idle"
\* The keyword overrides of the current call whose key the method does not allow.
DroppedKeys == {key \in DOMAIN kwargs : key \notin listed_keys(Method) \cup retry_keys}
\* The keyword overrides of the current call without those keys.
KeptKwargs == [key \in (DOMAIN kwargs) \ DroppedKeys |-> kwargs[key]]
\* The current call has reached the network, or is about to.
Proceeds == pc = "attempting" \/ attempts > 0

\* C11: in every operation, an override whose key is not in the operation's
\* allowed-key set is dropped with a warning: the parameters are assembled, the
\* key is reported, it is absent from the parameters or keeps the operation's
\* default, the parameters are those of the same call without it, and the call
\* goes on to the network (a file export apart, which never does).
C11_AsStated ==
    (Called /\ DroppedKeys # {}) =>
        /\ post_data # Unset
        /\ DroppedKeys \subseteq warned
        /\ \A key \in DroppedKeys :
              key \in DOMAIN post_data =>
                  /\ key \in DOMAIN post_data_defaults(Method, _redcap_token, args)
                  /\ post_data[key] = post_data_defaults(Method, _redcap_token, args)[key]
        /\ post_data = assemble(Method, _redcap_token, args, KeptKwargs)
        /\ Proceeds \/ (Method = "import_file" /\ action_of(kwargs) = "export")
        /\ sent \notin {Unset, NothingSent} => sent.data = post_data

\* C12: whatever the overrides (allowed keys, keys that are not allowed,
\* bracketed keys such as records[0]), the parameters assembled always hold the
\* token and the content field; a bracketed key is a key like any other: where
\* it is allowed its value is stored under that very name, and no key appears
\* that is neither a default nor an override.
C12_TokenAndContent ==
    post_data # Unset =>
        /\ {"token", "content"} \subseteq DOMAIN post_data
        /\ DOMAIN post_data \subseteq
              (DOMAIN post_data_defaults(Method, _redcap_token, args)) \cup (DOMAIN kwargs)
        /\ ("records[0]" \in (DOMAIN kwargs) \ DroppedKeys) =>
              /\ "records[0]" \in DOMAIN post_data
              /\ post_data["records[0]"] = kwargs["records[0]"]
        /\ sent \notin {Unset, NothingSent} => {"token", "content"} \subseteq DOMAIN sent.data

\* An attempt of delete_record has sent the caller's records[0], and an attempt
\* of another call has sent parameters whose token and content were overridden.
C12_Witness ==
    /\ attempts > 0
    /\ sent \notin {Unset, NothingSent}
    /\ \/ op = "delete_record" /\ "records[0]" \in DOMAIN kwargs
       \/ op = "import_file" /\ "token" \in DOMAIN kwargs /\ sent.data["content"] = PyStr("None")

\* The payload of the current import_records call, parsed, when it is a string
\* that json.loads accepts.
PayloadIsJson ==
    /\ Called
    /\ op = "import_records"
    /\ args.data_to_upload.t = "str"
    /\ json_loads(args.data_to_upload.v).ok
PayloadValue == json_loads(args.data_to_upload.v).val

\* C13: import_records with format json and no data override: a string payload
\* that is one JSON object sends, as data, the text of that object wrapped in a
\* one-element array; a payload that is already an array (a string holding a
\* JSON array, or a list) is sent untouched.
C13_AsStated ==
    (Called /\ op = "import_records" /\ post_data["format"] = PyStr("json")
        /\ "data" \notin DOMAIN kwargs) =>
        /\ (PayloadIsJson /\ PayloadValue.t = "dict") =>
              /\ post_data["data"].t = "str"
              /\ json_loads(post_data["data"].v) =
                     [ok |-> TRUE, val |-> PyList(<<PayloadValue>>)]
        /\ (PayloadIsJson /\ PayloadValue.t = "list") =>
              post_data["data"] = args.data_to_upload
        /\ args.data_to_upload.t = "list" => post_data["data"] = args.data_to_upload
        /\ sent \notin {Unset, NothingSent} => sent.data["data"] = post_data["data"]

(***************************************************************************)
(* The claims about the constructor.                                       *)
(***************************************************************************)
\* The constructor has been called.
ConstructorCalled == constructed # "no"
\* URLs that are empty or malformed: no scheme separator, a comma in the host,
\* a bare domain, a host without a top-level domain, a blank in the host.
MalformedUrls ==
    { "", "http:/redcap.ucsf.edu", "http://redcap.ucsf,edu", "redcap.ucsf.edu",
      "http://redcap,", "https://redcap example.org/api/" }
\* URLs that are well formed.
WellFormedUrls ==
    { "http://redcap.ucsf.edu", "https://redcap.ucsf.edu/api/",
      "https://redcap.example.org:8443/api/", "https://redcap.example.org/api/" }
\* Nothing has gone to the network.
NoNetworkCall ==
    /\ pc = "idle"
    /\ attempts = 0
    /\ sent = Unset
    /\ last_status_code = PyStr("")
    /\ last_response = PyStr("")

\* C14: a constructor call with an empty token, an empty URL or a malformed URL
\* raises ValueError and leaves no client; and no constructor call, failed or
\* not, makes a network call.
C14_BadArgumentsRaise ==
    ConstructorCalled =>
        /\ (init_args.api_token = "" \/ init_args.redcap_url \in MalformedUrls) =>
              /\ constructed = "ValueError"
              /\ _redcap_token = ""
              /\ redcap_url = ""
        /\ NoNetworkCall

\* The constructor has raised ValueError for a token that is not empty and a
\* URL with a comma in its host.
C14_Witness ==
    /\ constructed = "ValueError"
    /\ init_args.api_token = "0123456789ABCDEF"
    /\ init_args.redcap_url = "http://redcap.ucsf,edu"

\* the smaller of two numbers
Least(a, b) == IF a <= b THEN a ELSE b

\* C15: a constructor call with a token that is not empty, however short, and
\* a well-formed URL succeeds; then _redcap_token is the token passed and
\* redcap_url the URL passed, and api_token is the first 3 characters of the
\* token (all of them when there are fewer), the mask, and the last 2
\* characters (all of them when there are fewer): no more than 5 characters of
\* the token are shown.
C15_MaskedToken ==
    (ConstructorCalled /\ init_args.api_token # ""
        /\ init_args.redcap_url \in WellFormedUrls) =>
        LET token == init_args.api_token
            n == Len(token)
            b == Least(3, n)
            e == Least(2, n)
        IN  /\ constructed = "ok"
            /\ _redcap_token = token
            /\ redcap_url = init_args.redcap_url
            /\ Len(api_token) = b + Len("***...***") + e
            /\ Len(api_token) - Len("***...***") <= 5
            /\ \A i \in 1..b : Ch(api_token, i) = Ch(token, i)
            /\ StartsAt(api_token, b + 1, "***...***")
            /\ \A i \in 1..e : Ch(api_token, b + Len("***...***") + i) = Ch(token, n - e + i)

\* A client has been constructed with a token of four characters, and one with
\* a token of one character.
C15_Witness ==
    /\ constructed = "ok"
    /\ \/ init_args.api_token = "abcd" /\ api_token = "abc***...***cd"
       \/ init_args.api_token = "a" /\ api_token = "a***...***a"

(***************************************************************************)
(* The claims about export_survey_link and about the end of a call.        *)
(***************************************************************************)
\* C16: export_survey_link never returns False: when the wrapped call ends in
\* False, after all the tries of its limit, it returns ""; when the server
\* answers with a link it returns that URL string as it came.
C16_SurveyLinkDegrades ==
    (pc = "returned" /\ op = "export_survey_link") =>
        /\ ~raised
        /\ ~IsFalse(result)
        /\ IsFalse(rv) => (result = PyStr("") /\ attempts = limit /\ fails = limit)
        /\ last_outcome.kind = "url" =>
              /\ result = PyStr(last_response.text)
              /\ result = rv
              /\ _find_url(result.v) = result.v

\* An export_survey_link call with a limit of 2 or more has failed in every
\* attempt and returned "".
C16_Witness ==
    /\ pc = "returned"
    /\ op = "export_survey_link"
    /\ limit >= 2
    /\ fails = limit
    /\ IsFalse(rv)
    /\ result = PyStr("")

\* C18: when every attempt of the loop has failed there is exactly one more
\* attempt, outside the loop, and what it returns is what the call returns,
\* False included: limit attempts and limit - 1 sleeps in all, nothing after
\* it.  In every call the value returned is the value of the last attempt
\* made, and False is returned only when that attempt failed, as the last of
\* the limit.
C18_FinalAttemptVerbatim ==
    CallEnded =>
        /\ ~raised
        /\ rv = last_outcome.val
        /\ fails >= limit - 1 =>
              /\ attempts = limit
              /\ Len(sleeps) = limit - 1
              /\ mtries = 1
        /\ IsFalse(rv) =>
              /\ retryable(last_outcome)
              /\ attempts = limit
              /\ fails = limit

\* A call with a limit of 2 or more has failed in every attempt of the loop
\* and in the final attempt, and returned False.
C18_Witness ==
    /\ CallEnded
    /\ limit >= 2
    /\ fails = limit
    /\ IsFalse(rv)
    /\ Len(sleeps) = limit - 1

\* C19: a successful attempt ends the call at once: it is the last attempt and
\* no sleep follows it; a call that succeeds at its first attempt has not
\* slept.  A sleep comes only after a failed attempt that another attempt
\* follows: while a call runs every attempt so far has failed and been slept
\* after, and when it has ended it has slept once less than it has attempted.
C19_NoDelayOnSuccess ==
    /\ CallEnded =>
          /\ Len(sleeps) = attempts - 1
          /\ ~retryable(last_outcome) => (fails = attempts - 1 /\ Len(sleeps) = fails)
          /\ (attempts = 1) => sleeps = <<>>
    /\ (pc = "attempting") => (fails = attempts /\ Len(sleeps) = attempts)

\* A call has succeeded in its first attempt without a sleep, under a limit
\* of 2 or more.
C19_Witness ==
    /\ CallEnded
    /\ limit >= 2
    /\ attempts = 1
    /\ ~retryable(last_outcome)
    /\ sleeps = <<>>

(***************************************************************************)
(* The claims about import_file's actions and about the backoff.           *)
(***************************************************************************)
\* C17: import_file with the action "export" returns False and makes no
\* attempt on the network; with the action "export" or "delete" the assembled
\* post_data has no "file" field; and a delete is sent as an ordinary request,
\* data and headers and no files, with no local file opened.
C17_FileExportAndDelete ==
    (Called /\ Method = "import_file") =>
        /\ action_of(kwargs) = "export" =>
              /\ pc = "returned"
              /\ result = PyBool(FALSE)
              /\ ~raised
              /\ attempts = 0
              /\ sleeps = <<>>
              /\ sent = Unset
        /\ action_of(kwargs) \in {"export", "delete"} => "file" \notin DOMAIN post_data
        /\ action_of(kwargs) = "delete" =>
              /\ delete_file
              /\ ~import_file
              /\ attempts > 0 =>
                    /\ sent # NothingSent
                    /\ sent.files = PyNone
                    /\ sent.data = post_data
                    /\ "file" \notin DOMAIN sent.data

\* import_file has been called with the action "delete" and a "file" override,
\* and has sent its request.
C17_Witness ==
    /\ op = "import_file"
    /\ "file" \in DOMAIN kwargs
    /\ action_of(kwargs) = "delete"
    /\ attempts > 0
    /\ sent.files = PyNone
    /\ "file" \notin DOMAIN post_data

\* The backoff factor of the current call as the claim has it: the caller's
\* backoff when one is supplied, otherwise 2.
SuppliedBackoff ==
    IF kwargs # Unset /\ "backoff" \in DOMAIN kwargs THEN kwargs["backoff"].v ELSE 2

\* C20: after each failed attempt of the loop the wrapper sleeps for the
\* current delay and multiplies it by the backoff factor, the caller's backoff
\* when one is supplied and 2 otherwise: the i-th delay of a call is
\* wait_secs * backoff^(i-1), with no cap.
C20_AsStated ==
    Called =>
        \A i \in 1..Len(sleeps) : sleeps[i] = wait_secs * SuppliedBackoff ^ (i - 1)

(***************************************************************************)
(* The claims about the retry arguments of the facade operations.          *)
(***************************************************************************)
\* The limit or wait_secs the caller of the current call specified: a named
\* argument of an export operation, a keyword of the others.
Specified(name) ==
    IF name \in DOMAIN args THEN args[name]
    ELSE IF name \in DOMAIN kwargs THEN kwargs[name]
    ELSE Unset

\* C21: in every facade operation the limit and the wait_secs the caller
\* specifies are the wrapper's first attempt count and first delay for that
\* call.
C21_AsStated ==
    (Called /\ pc = "attempting") =>
        /\ Specified("limit") # Unset => limit = Specified("limit").v
        /\ Specified("wait_secs") # Unset => wait_secs = Specified("wait_secs").v
        /\ attempts = 0 => (mtries = limit /\ mdelay = wait_secs)

(***************************************************************************)
(* SpecFair follows one call of the client to its end: a facade operation, *)
(* or the wrapped method called with a limit of 1 or less.  An attempt     *)
(* returns or faults, so the wrapper's next step is always taken.          *)
(***************************************************************************)
\* limit and wait_secs of a direct call of the wrapped method
CoreLimits == {0 - 1, 0, 1}
CoreWaits == {0, MaxWait}

\* self._core_api_code(post_data=post_data, limit=l, wait_secs=w): f_retry_wrapper
\* reads limit and wait_secs from its keywords as they are.
core_call ==
    \E l \in CoreLimits, w \in CoreWaits :
        /\ enter_wrapper("_core_api_code", FALSE, FALSE, l, w)
        /\ args' = [limit |-> PyInt(l), wait_secs |-> PyInt(w)]
        /\ kwargs' = NoKwargs
        /\ post_data' = post_data_defaults("export_events", _redcap_token, NoArgs)
        /\ warned' = {}
        /\ sent' = Unset
        /\ open_files' = 0
        /\ UNCHANGED <<client_vars, thread_vars>>

NextFair ==
    \/ first_call /\ export_events
    \/ first_call /\ export_data_dictionary
    \/ first_call /\ export_survey_link
    \/ first_call /\ export_survey_participants
    \/ first_call /\ export_records
    \/ first_call /\ import_records
    \/ first_call /\ delete_record
    \/ first_call /\ delete_form
    \/ first_call /\ export_file
    \/ first_call /\ import_file_op
    \/ first_call /\ delete_file_op
    \/ first_call /\ core_call
    \/ guarded_attempt
    \/ final_attempt

\* f is called once more, in the loop or after it: the wrapper's only step.
attempt_made == pc = "attempting" /\ attempts' = attempts + 1

SpecFair ==
    /\ Init
    /\ [][NextFair]_vars
    /\ WF_attempts(attempt_made)

\* The attempts a call with this limit can make at most: the loop runs
\* limit - 1 times when limit > 1, and one attempt follows it.
MostAttempts == IF limit > 1 THEN limit ELSE 1

\* C22: every call ends.  With any limit, 1 or less included, and any
\* wait_secs >= 0 a call that has started returns, after at most limit
\* attempts (one when limit <= 1); and it stops retrying only at an attempt
\* that succeeded or at the last attempt its limit allows.
C22_Terminates ==
    /\ (pc = "attempting") ~> (pc = "returned")
    /\ [](attempts <= MostAttempts)
    /\ [](pc = "attempting" => attempts < MostAttempts)
    /\ []((pc = "returned" /\ attempts > 0) =>
              (~retryable(last_outcome) \/ attempts = MostAttempts))

\* A call with a limit of 0 has made its one attempt, which failed, and has
\* returned.
C22_Witness ==
    /\ pc = "returned"
    /\ op = "_core_api_code"
    /\ limit = 0
    /\ attempts = 1
    /\ sleeps = <<>>
    /\ retryable(last_outcome)

(***************************************************************************)
(* The claims about the runtime state and the response bodies.             *)
(***************************************************************************)
\* last_status_code and last_response hold the response r.
Recorded(r) ==
    /\ r.fault = "none"
    /\ last_status_code = PyInt(r.status_code)
    /\ last_response = r
\* last_status_code and last_response hold "", the value every attempt starts with.
Cleared == last_status_code = PyStr("") /\ last_response = PyStr("")

\* C23 as stated: every attempt, the failed ones included, records its status
\* code and its response: after any attempt last_status_code is a status code
\* and last_response a response.
C23_AsStated ==
    Attempted =>
        /\ last_status_code.t = "int"
        /\ last_response # PyStr("")

\* C23: every attempt clears last_status_code and last_response to "" and, if
\* it gets a response, whatever the status, records the status code and the
\* response; an attempt that meets a fault (the POST or the opening of the
\* file raises) leaves both at "".  So after any attempt, and after any call
\* has returned, the two fields are those of the latest attempt of that call:
\* its response, or "" if it had none, never what an earlier attempt or an
\* earlier call left.
C23_RuntimeState ==
    Attempted =>
        /\ Cleared \/ (last_response # PyStr("") /\ Recorded(last_response))
        /\ Cleared => last_outcome = Returns(PyBool(FALSE), "exception")
        /\ ~Cleared => last_outcome = _core_api_code(last_response, import_file, delete_file)
        /\ (sent = NothingSent) => Cleared

\* The second call of the client has returned after limit attempts, the last
\* of which met a fault and left both fields at "".
C23_Witness ==
    /\ CallEnded
    /\ prev # NoCall
    /\ attempts = limit
    /\ limit >= 2
    /\ Cleared

\* The body of the latest response.
LastBody == last_response.text
\* The latest attempt got status 200 with a body that is not a URL as a whole
\* and not JSON, in a call that is no file call or with a body that is not
\* empty.
LastIsText ==
    /\ LastStatusIs(HTTP_OK)
    /\ ~(LastBody # "" /\ _find_url(LastBody) = LastBody)
    /\ (import_file \/ delete_file) => LastBody # ""
    /\ ~json_loads(LastBody).ok

\* C24: on status 200, in a call that is no file call or with a body that is
\* not empty, a body that is not a URL as a whole and does not parse as JSON
\* is returned as text: the text of its XML error field if it has one,
\* <hash><error>bad token</error></hash> giving "bad token", and otherwise the
\* body itself as it came.  The value is a string, not False: nothing is
\* raised and the call ends at that attempt.
C24_TextFallbacks ==
    LastIsText =>
        /\ pc = "returned"
        /\ ~raised
        /\ rv.t = "str"
        /\ ~IsFalse(rv)
        /\ ~retryable(last_outcome)
        /\ Len(sleeps) = attempts - 1
        /\ fails = attempts - 1
        /\ IF soup_hash_error_get_text(LastBody).ok
           THEN /\ last_outcome.kind = "xml_error"
                /\ rv = PyStr(soup_hash_error_get_text(LastBody).val)
           ELSE /\ last_outcome.kind = "raw"
                /\ rv = PyStr(LastBody)
        /\ LastBody = "<hash><error>bad token</error></hash>" => rv = PyStr("bad token")
        /\ LastBody = "record_id,age" => rv = PyStr("record_id,age")

\* A call has returned the text of an XML error field on its second attempt.
C24_Witness ==
    /\ CallEnded
    /\ attempts = 2
    /\ last_response = Response(HTTP_OK, "<hash><error>bad token</error></hash>")
    /\ rv = PyStr("bad token")

(***************************************************************************)
(* The claims about the request an attempt sends.                          *)
(***************************************************************************)
\* The latest attempt of the current call has sent a request.
Posted == Attempted /\ sent # Unset /\ sent # NothingSent

\* C25: the body sent in any attempt of any operation holds API fields only:
\* the retry settings the caller supplies (limit, wait_secs, backoff, logger)
\* set up the wrapper and are never sent to the server as request parameters.
C25_AsStated ==
    Posted => \A key \in retry_keys : key \notin DOMAIN sent.data

\* C26: every attempt, a form-encoded POST as well as a multipart POST with a
\* file, issues one POST and sends it with the header Accept-Encoding:
\* identity.
C26_AsStated ==
    Attempted =>
        /\ sent # NothingSent
        /\ sent.headers = ("Accept-Encoding" :> "identity")

\* C27: the file a file import opens for the upload is open for one attempt
\* only: it is released by the end of the attempt on every path, so no file
\* is open between the attempts of a call, nor after the call has returned.
C27_AsStated ==
    Called => open_files = 0

(***************************************************************************)
(* SpecThreads follows two threads that each call the same client once,    *)
(* with a limit of 1: one attempt each.  The statements of _core_api_code  *)
(* that assign self.last_status_code and self.last_response are the steps; *)
(* the interpreter may switch threads between any two of them.             *)
(***************************************************************************)
\* what the attempt of a thread can meet
ThreadResponses ==
    { Response(HTTP_OK, "{\"a\":1}"),
      Response(HTTP_BAD_REQUEST, "{\"error\":\"bad token\"}"),
      Fault("post") }

\* the variables of the wrapper, which the threads' calls leave alone here
wrapper_vars ==
    <<pc, op, import_file, delete_file, limit, wait_secs, mtries, mdelay, attempts, fails,
      sleeps, last_outcome, rv, raised, result, prev>>

\* The field keeps a value it has: the assignment merges.
assign_if_unset(old, new) == IF old = PyStr("") THEN new ELSE old

\* self.field = new: the field's old value is lost
assign(old, new) == new

\* Thread t takes a step of its call, from one place to the next.
thread_step(t, from, to) ==
    /\ threads[t].pc = from
    /\ threads' = [threads EXCEPT ![t].pc = to]

\* Thread t calls an operation of the client: _core_api_code is entered.
thread_call(t) ==
    /\ thread_step(t, "idle", "called")
    /\ UNCHANGED <<last_status_code, last_response, writers>>
    /\ UNCHANGED <<wrapper_vars, params_vars, client_vars>>

\* self.last_status_code = ""
thread_clear_status(t) ==
    /\ thread_step(t, "called", "status_cleared")
    /\ last_status_code' = assign(last_status_code, PyStr(""))
    /\ writers' = [writers EXCEPT !.last_status_code = t]
    /\ UNCHANGED last_response
    /\ UNCHANGED <<wrapper_vars, params_vars, client_vars>>

\* self.last_response = ""
thread_clear_response(t) ==
    /\ thread_step(t, "status_cleared", "cleared")
    /\ last_response' = assign(last_response, PyStr(""))
    /\ writers' = [writers EXCEPT !.last_response = t]
    /\ UNCHANGED last_status_code
    /\ UNCHANGED <<wrapper_vars, params_vars, client_vars>>

\* r = requests.post(...): the response is the thread's own; a fault goes to
\* the except clause, which returns False.
thread_post(t) ==
    /\ threads[t].pc = "cleared"
    /\ \E r \in ThreadResponses :
          threads' = [threads EXCEPT ![t] =
                         IF r.fault # "none"
                         THEN [pc |-> "returned", met |-> r, out |-> except_handler]
                         ELSE [pc |-> "posted", met |-> r, out |-> NoOutcome]]
    /\ UNCHANGED <<last_status_code, last_response, writers>>
    /\ UNCHANGED <<wrapper_vars, params_vars, client_vars>>

\* self.last_status_code = r.status_code
thread_record_status(t) ==
    /\ thread_step(t, "posted", "status_recorded")
    /\ last_status_code' = assign(last_status_code, PyInt(threads[t].met.status_code))
    /\ writers' = [writers EXCEPT !.last_status_code = t]
    /\ UNCHANGED last_response
    /\ UNCHANGED <<wrapper_vars, params_vars, client_vars>>

\* self.last_response = r
thread_record_response(t) ==
    /\ thread_step(t, "status_recorded", "recorded")
    /\ last_response' = assign(last_response, threads[t].met)
    /\ writers' = [writers EXCEPT !.last_response = t]
    /\ UNCHANGED last_status_code
    /\ UNCHANGED <<wrapper_vars, params_vars, client_vars>>

\* The rest of _core_api_code: the thread's call returns.
thread_return(t) ==
    /\ threads[t].pc = "recorded"
    /\ threads' = [threads EXCEPT ![t].pc = "returned",
                                  ![t].out = _core_api_code(threads[t].met, FALSE, FALSE)]
    /\ UNCHANGED <<last_status_code, last_response, writers>>
    /\ UNCHANGED <<wrapper_vars, params_vars, client_vars>>

NextThreads ==
    \/ \E t \in Threads : thread_call(t)
    \/ \E t \in Threads : thread_clear_status(t)
    \/ \E t \in Threads : thread_clear_response(t)
    \/ \E t \in Threads : thread_post(t)
    \/ \E t \in Threads : thread_record_status(t)
    \/ \E t \in Threads : thread_record_response(t)
    \/ \E t \in Threads : thread_return(t)

SpecThreads == Init /\ [][NextThreads]_vars

\* Thread t has got a response.
Responded(t) == threads[t].met # Unset /\ threads[t].met.fault = "none"
\* What thread t assigned to last_status_code last.
StatusAssignedBy(t) ==
    IF Responded(t) /\ threads[t].pc \in {"status_recorded", "recorded", "returned"}
    THEN PyInt(threads[t].met.status_code)
    ELSE PyStr("")
\* What thread t assigned to last_response last.
ResponseAssignedBy(t) ==
    IF Responded(t) /\ threads[t].pc \in {"recorded", "returned"}
    THEN threads[t].met
    ELSE PyStr("")
\* The call of thread t has returned and the two fields are those of its attempt.
SeesOwnAttempt(t) ==
    /\ threads[t].pc = "returned"
    /\ last_status_code = StatusAssignedBy(t)
    /\ last_response = ResponseAssignedBy(t)

\* C28: one client used by two threads at once is unsafe.  Each assignment of
\* last_status_code and last_response replaces what the field held, whoever
\* put it there: a field is at all times what the thread that assigned it
\* last gave it.  A call that runs alone sees its own attempt in the fields
\* when it has returned; a call that another call interleaves with need not:
\* it can return with the fields holding the other call's attempt, or "".
C28_Overwritten ==
    /\ writers.last_status_code = 0 => last_status_code = PyStr("")
    /\ writers.last_response = 0 => last_response = PyStr("")
    /\ writers.last_status_code # 0 =>
          last_status_code = StatusAssignedBy(writers.last_status_code)
    /\ writers.last_response # 0 =>
          last_response = ResponseAssignedBy(writers.last_response)
    /\ \A t \in Threads :
          (threads[t].pc = "returned" /\ \A u \in Threads \ {t} : threads[u].pc = "idle")
              => SeesOwnAttempt(t)

\* The call of thread 1 got status 200 and has returned, and the two fields
\* hold the status 400 and the response of the call of thread 2.
C28_Witness ==
    /\ threads[1].pc = "returned"
    /\ threads[1].met = Response(HTTP_OK, "{\"a\":1}")
    /\ threads[2].met = Response(HTTP_BAD_REQUEST, "{\"error\":\"bad token\"}")
    /\ last_status_code = PyInt(HTTP_BAD_REQUEST)
    /\ last_response = threads[2].met
    /\ ~SeesOwnAttempt(1)

(***************************************************************************)
(* The claims about the client's configuration and the retry arguments.    *)
(***************************************************************************)
\* C29: the configuration does not change after construction: whatever the
\* operations called, in any order, succeeding, failing or retried, the raw
\* token, the masked token and the URL are those the constructor set; every
\* request goes to that URL and carries the token given at construction,
\* unless the caller overrides the token field, and then for that call alone.
C29_ConfigImmutable ==
    /\ constructed = "ok"
    /\ init_args = [api_token |-> TheToken, redcap_url |-> TheUrl]
    /\ _redcap_token = TheToken
    /\ api_token = SliceTo(TheToken, 3) \o TokenMask \o SliceLast(TheToken, 2)
    /\ redcap_url = TheUrl
    /\ Posted =>
          /\ sent.url = TheUrl
          /\ "token" \in DOMAIN sent.data
          /\ sent.data["token"] =
                (IF "token" \in DOMAIN kwargs THEN kwargs["token"] ELSE PyStr(TheToken))

\* A call after the first has been retried to its limit and has failed; its
\* request carried the token of the caller's override, and the client's own
\* token is the one given at construction.
C29_Witness ==
    /\ CallEnded
    /\ prev # NoCall
    /\ op = "delete_record"
    /\ fails = limit
    /\ Posted
    /\ sent.data["token"] = PyStr("other")
    /\ _redcap_token = TheToken

(***************************************************************************)
(* SpecArgs follows the first call of an export operation with any limit   *)
(* and wait_secs: integers, valid or not, None, booleans, strings.         *)
(***************************************************************************)
\* the limit and wait_secs arguments of the export operations under SpecArgs
ArgLimits ==
    LimitArgs(export_limit) \cup {PyInt(0 - 1), PyBool(TRUE), PyBool(FALSE), PyStr("2")}
ArgWaits == WaitArgs \cup {PyBool(TRUE), PyBool(FALSE), PyStr("0")}

export_args(o) ==
    \E l \in ArgLimits, w \in ArgWaits :
        export_call(o, {l}, {w}, {WithRetryArgs(PlainArgs(o), l, w)}, {NoKwargs})

NextArgs ==
    \/ first_call /\ export_args("export_events")
    \/ first_call /\ export_args("export_data_dictionary")
    \/ first_call /\ export_args("export_survey_link")
    \/ first_call /\ export_args("export_survey_participants")
    \/ first_call /\ export_args("export_records")
    \/ guarded_attempt
    \/ final_attempt

SpecArgs == Init /\ [][NextArgs]_vars

\* x is an integer, in Python's sense (True and False are the integers 1 and
\* 0), and at least n.
IsIntAtLeast(x, n) ==
    \/ x.t = "int" /\ x.v >= n
    \/ x.t = "bool" /\ (IF x.v THEN 1 ELSE 0) >= n
\* The number that x is.
NumberOf(x) == IF x.t = "bool" THEN (IF x.v THEN 1 ELSE 0) ELSE x.v

\* C30: in the export operations the retry arguments are checked before the
\* wrapper starts: a limit that is no integer of 1 or more becomes 1, a
\* wait_secs that is no integer of 0 or more becomes 1, and valid values are
\* passed as they are.  So the wrapper starts with limit >= 1 and a delay
\* >= 0, and a call with the limit 1 makes one attempt and sleeps never.
C30_CheckedArgs ==
    (Called /\ "limit" \in DOMAIN args) =>
        /\ limit = (IF IsIntAtLeast(args.limit, 1) THEN NumberOf(args.limit) ELSE 1)
        /\ wait_secs =
              (IF IsIntAtLeast(args.wait_secs, 0) THEN NumberOf(args.wait_secs) ELSE 1)
        /\ limit >= 1
        /\ wait_secs >= 0
        /\ (pc = "attempting" /\ attempts = 0) => (mtries = limit /\ mdelay = wait_secs)
        /\ limit = 1 => (attempts <= 1 /\ sleeps = <<>>)
        /\ (limit = 1 /\ pc = "returned") => attempts = 1

\* export_records was called with limit None and wait_secs -1: the wrapper ran
\* with limit 1 and delay 1, and the call has returned after its one attempt,
\* which failed, without a sleep.
C30_Witness ==
    /\ pc = "returned"
    /\ op = "export_records"
    /\ args.limit = PyNone
    /\ args.wait_secs = PyInt(0 - 1)
    /\ limit = 1
    /\ wait_secs = 1
    /\ attempts = 1
    /\ fails = 1
    /\ sleeps = <<>>
====
